---- MODULE Spec2Model ----
(***************************************************************************)
(* The task store of src/src/App.tsx: the `tasks` collection held in React *)
(* state, the commands that replace it, and its mirror under the           *)
(* localStorage key 'tasks'.                                               *)
(*                                                                         *)
(* Representation.  A string is a sequence of characters.  A Date is the   *)
(* one-element sequence <<t>> of its instant, null is <<>>; instants are   *)
(* counted in days.  An id made by crypto.randomUUID() is the next value   *)
(* of a counter that is never reused.  A property whose value is           *)
(* `undefined` is a key the record lacks: the code reads properties by     *)
(* name only, where both read as undefined, and JSON.stringify omits both. *)
(*                                                                         *)
(* `tasks` is the state React holds: every setTasks call is applied to it  *)
(* in the order of the calls (a value replaces it, an updater function is  *)
(* applied to it).  `rendered` is the `tasks` constant of the last render, *)
(* the one the event handlers close over.                                  *)
(***************************************************************************)
EXTENDS Integers, Sequences, FiniteSets, TLC

VARIABLES tasks, rendered, stored, now, nextTaskId, nextSubId, adds, activeTab

vars == <<tasks, rendered, stored, now, nextTaskId, nextSubId, adds, activeTab>>

\* ------------------------------------------------------------- bounds
\* addTask calls that add a task: in SpecSeries, and where tasks have
\* checklists (Spec, SpecStore).
MaxAddTask == 3
MaxChecklistTasks == 2
\* The commands are tried on the task ids 1..MaxTaskTarget and the subtask ids
\* 1..MaxSubtasks, which is also the number of subtasks ever added.
MaxTaskTarget == 2
MaxSubtasks == 2
\* The last day of the clock.
MaxNow == 1
\* The longest checklist whose progress is computed.
MaxProgressSubtasks == 200

\* -------------------------------------------------- program constants
Occurrences == 12
Week == 7

Null == <<>>
Undefined == "undefined"

\* The titles typed into the forms: empty, blank and proper ones.
TitleInputs == { <<>>, <<" ">>, <<"T">>, <<"U">> }
ChecklistTitleInputs == { <<>>, <<" ">>, <<"T">> }
SubtaskTitleInputs == { <<>>, <<" ">>, <<"s">> }
TaskIdInputs == 1..MaxTaskTarget
SubtaskIdInputs == 1..MaxSubtasks

\* ------------------------------------------------------------ helpers
\* A property read: a key the object lacks reads as undefined.
Prop(obj, key) == IF key \in DOMAIN obj THEN obj[key] ELSE Undefined

\* trim that returns the string as it is.
trimNothing(s) == s

RECURSIVE trim(_)
trim(s) ==
    IF s = <<>> THEN s
    ELSE IF Head(s) = " " THEN trim(Tail(s))
    ELSE IF s[Len(s)] = " " THEN trim(SubSeq(s, 1, Len(s) - 1))
    ELSE s

indexOf(ts, taskId) ==
    IF \E i \in 1..Len(ts) : ts[i].id = taskId
    THEN CHOOSE i \in 1..Len(ts) :
             ts[i].id = taskId /\ \A j \in 1..(i - 1) : ts[j].id # taskId
    ELSE 0

every(subtasks) == \A k \in 1..Len(subtasks) : subtasks[k].completed

\* ----------------------------------------------------------- commands
\* newTask giving every task the pattern 'weekly'.
newTaskWeekly(title, recurring, id) ==
    [ id |-> id,
      title |-> title,
      startDate |-> Null,
      completed |-> FALSE,
      subtasks |-> <<>>,
      expanded |-> FALSE,
      inProgress |-> FALSE,
      isRecurring |-> recurring,
      recurrencePattern |-> "weekly" ]

newTask(title, recurring, id) ==
    LET pattern == IF recurring THEN {"recurrencePattern"} ELSE {}
        value == [ id |-> id,
                   title |-> title,
                   startDate |-> Null,
                   completed |-> FALSE,
                   subtasks |-> <<>>,
                   expanded |-> FALSE,
                   inProgress |-> FALSE,
                   isRecurring |-> recurring,
                   recurrencePattern |-> "weekly" ]
    IN  [k \in (DOMAIN value \ {"recurrencePattern"}) \cup pattern |-> value[k]]

\* recurringTask keeping the startDate it copies from the base task.
recurringTaskCopiedDate(base, i, startDate) == [base EXCEPT !.id = base.id + i]

recurringTask(base, i, startDate) ==
    [base EXCEPT !.id = base.id + i, !.startDate = <<startDate + i * Week>>]

addTask(prevTasks, title, recurring, id, startDate) ==
    LET base == newTask(title, recurring, id)
    IN  prevTasks \o <<base>> \o
        ( IF recurring
          THEN [i \in 1..Occurrences |-> recurringTask(base, i, startDate)]
          ELSE <<>> )

newSubtask(title, id) == [id |-> id, title |-> title, completed |-> FALSE]

addSubtask(ts, taskId, title, id) ==
    [i \in 1..Len(ts) |->
        IF ts[i].id = taskId
        THEN [ts[i] EXCEPT !.subtasks = Append(@, newSubtask(title, id))]
        ELSE ts[i]]

\* toggleSubtask leaving the task's completed flag alone.
toggleSubtaskKeepCompleted(ts, taskId, subtaskId) ==
    [i \in 1..Len(ts) |->
        IF ts[i].id = taskId
        THEN [ts[i] EXCEPT !.subtasks =
                 [k \in 1..Len(ts[i].subtasks) |->
                     IF ts[i].subtasks[k].id = subtaskId
                     THEN [ts[i].subtasks[k] EXCEPT !.completed = ~@]
                     ELSE ts[i].subtasks[k]]]
        ELSE ts[i]]

\* toggleSubtask that never takes completed back.
toggleSubtaskSticky(ts, taskId, subtaskId) ==
    [i \in 1..Len(ts) |->
        IF ts[i].id = taskId
        THEN LET updatedSubtasks ==
                     [k \in 1..Len(ts[i].subtasks) |->
                         IF ts[i].subtasks[k].id = subtaskId
                         THEN [ts[i].subtasks[k] EXCEPT !.completed = ~@]
                         ELSE ts[i].subtasks[k]]
             IN  [ts[i] EXCEPT !.subtasks = updatedSubtasks,
                               !.completed = @ \/ every(updatedSubtasks)]
        ELSE ts[i]]

toggleSubtask(ts, taskId, subtaskId) ==
    [i \in 1..Len(ts) |->
        IF ts[i].id = taskId
        THEN LET updatedSubtasks ==
                     [k \in 1..Len(ts[i].subtasks) |->
                         IF ts[i].subtasks[k].id = subtaskId
                         THEN [ts[i].subtasks[k] EXCEPT !.completed = ~@]
                         ELSE ts[i].subtasks[k]]
             IN  [ts[i] EXCEPT !.subtasks = updatedSubtasks,
                               !.completed = every(updatedSubtasks)]
        ELSE ts[i]]

\* deleteSubtask recomputing completed as toggleSubtask does.
deleteSubtaskRecompute(ts, taskId, subtaskId) ==
    [i \in 1..Len(ts) |->
        IF ts[i].id = taskId
        THEN LET updatedSubtasks ==
                     SelectSeq(ts[i].subtasks,
                               LAMBDA subtask : subtask.id # subtaskId)
             IN  [ts[i] EXCEPT !.subtasks = updatedSubtasks,
                               !.completed = every(updatedSubtasks)]
        ELSE ts[i]]

deleteSubtask(ts, taskId, subtaskId) ==
    [i \in 1..Len(ts) |->
        IF ts[i].id = taskId
        THEN [ts[i] EXCEPT !.subtasks =
                 SelectSeq(@, LAMBDA subtask : subtask.id # subtaskId)]
        ELSE ts[i]]

toggleTaskExpanded(ts, taskId) ==
    [i \in 1..Len(ts) |->
        IF ts[i].id = taskId THEN [ts[i] EXCEPT !.expanded = ~@] ELSE ts[i]]

\* deleteTask matching on the title alone.
deleteTaskByTitle(ts, taskId) ==
    LET at == indexOf(ts, taskId)
    IN  IF at # 0 /\ ts[at].isRecurring
        THEN SelectSeq(ts, LAMBDA task : ~ (task.title = ts[at].title))
        ELSE SelectSeq(ts, LAMBDA task : task.id # taskId)

\* deleteTask taking the series branch for every task.
deleteTaskAlwaysSeries(ts, taskId) ==
    LET at == indexOf(ts, taskId)
    IN  IF at # 0
        THEN SelectSeq(ts, LAMBDA task :
                 ~ ( task.title = ts[at].title
                     /\ Prop(task, "recurrencePattern")
                            = Prop(ts[at], "recurrencePattern") ))
        ELSE SelectSeq(ts, LAMBDA task : task.id # taskId)

deleteTask(ts, taskId) ==
    LET at == indexOf(ts, taskId)
    IN  IF at # 0 /\ ts[at].isRecurring
        THEN SelectSeq(ts, LAMBDA task :
                 ~ ( task.isRecurring
                     /\ task.title = ts[at].title
                     /\ Prop(task, "recurrencePattern")
                            = Prop(ts[at], "recurrencePattern") ))
        ELSE SelectSeq(ts, LAMBDA task : task.id # taskId)

\* startTask that leaves the startDate alone.
startTaskUndated(ts, taskId, date) ==
    [i \in 1..Len(ts) |->
        IF ts[i].id = taskId THEN [ts[i] EXCEPT !.inProgress = TRUE] ELSE ts[i]]

\* startTask keeping a startDate the task already has.
startTaskKeepDate(ts, taskId, date) ==
    [i \in 1..Len(ts) |->
        IF ts[i].id = taskId
        THEN [ts[i] EXCEPT !.inProgress = TRUE,
                           !.startDate = IF @ = Null THEN <<date>> ELSE @]
        ELSE ts[i]]

startTask(ts, taskId, date) ==
    [i \in 1..Len(ts) |->
        IF ts[i].id = taskId
        THEN [ts[i] EXCEPT !.inProgress = TRUE, !.startDate = <<date>>]
        ELSE ts[i]]

\* completeTask that also takes the task out of progress.
completeTaskRestart(ts, taskId) ==
    [i \in 1..Len(ts) |->
        IF ts[i].id = taskId
        THEN [ts[i] EXCEPT !.completed = TRUE, !.inProgress = FALSE]
        ELSE ts[i]]

\* completeTask flipping completed instead of setting it.
completeTaskFlip(ts, taskId) ==
    [i \in 1..Len(ts) |->
        IF ts[i].id = taskId THEN [ts[i] EXCEPT !.completed = ~@] ELSE ts[i]]

completeTask(ts, taskId) ==
    [i \in 1..Len(ts) |->
        IF ts[i].id = taskId THEN [ts[i] EXCEPT !.completed = TRUE] ELSE ts[i]]

\* ----------------------------------------------------------- progress
\* The exact halves k + 1/2 that (completed / length) * 100 misses from below
\* in double arithmetic (23 / 40 * 100 is 57.49999999999999); the other
\* halves come out exact or above.
HalvesBelow == {14, 28, 56, 57}

\* Math.round((completedSubtasks / length) * 100): the nearest integer, a
\* half going up, of the double the quotient and the product round to.
roundPercent(completedSubtasks, length) ==
    LET below == (100 * completedSubtasks) \div length
        half == (200 * completedSubtasks) % (2 * length) = length
    IN  IF half /\ below \in HalvesBelow
        THEN below
        ELSE (200 * completedSubtasks + length) \div (2 * length)

\* calculateProgress with Math.floor for Math.round.
calculateProgressFloor(task) ==
    IF Len(task.subtasks) = 0 THEN 0
    ELSE LET completedSubtasks ==
                 Len(SelectSeq(task.subtasks, LAMBDA subtask : subtask.completed))
         IN  (100 * completedSubtasks) \div Len(task.subtasks)

calculateProgress(task) ==
    IF Len(task.subtasks) = 0 THEN 0
    ELSE LET completedSubtasks ==
                 Len(SelectSeq(task.subtasks, LAMBDA subtask : subtask.completed))
         IN  roundPercent(completedSubtasks, Len(task.subtasks))

\* -------------------------------------------------------- persistence
\* A date string that keeps the leading digit of the instant only.
RECURSIVE toISOStringShort(_)
toISOStringShort(t) ==
    IF t < 10 THEN <<t>> ELSE Append(toISOStringShort(t \div 10), 0)

RECURSIVE toISOString(_)

toISOString(t) ==
    IF t < 10 THEN <<t>> ELSE Append(toISOString(t \div 10), t % 10)

RECURSIVE parseDate(_)
parseDate(s) ==
    IF s = <<>> THEN 0
    ELSE 10 * parseDate(SubSeq(s, 1, Len(s) - 1)) + s[Len(s)]

\* JSON.stringify of one task: a Date becomes its ISO string (null stays
\* null); every other value is written as it is.
stringifyTask(task) ==
    LET date == IF task.startDate = Null
                THEN [type |-> "null", text |-> <<>>]
                ELSE [type |-> "string", text |-> toISOString(task.startDate[1])]
    IN  [k \in DOMAIN task |-> IF k = "startDate" THEN date ELSE task[k]]

stringify(ts) == [i \in 1..Len(ts) |-> stringifyTask(ts[i])]

parseTask(json) ==
    [k \in DOMAIN json \cup {"startDate"} |->
        IF k = "startDate"
        THEN IF "startDate" \in DOMAIN json /\ json.startDate.text # <<>>
             THEN <<parseDate(json.startDate.text)>>
             ELSE Null
        ELSE json[k]]

\* The initial value of `tasks`, from what getItem('tasks') returns.
loadTasks(item) ==
    IF item.present
    THEN [i \in 1..Len(item.json) |-> parseTask(item.json[i])]
    ELSE <<>>

setItem(ts) == [present |-> TRUE, json |-> stringify(ts)]

\* ------------------------------------------------------- state machine
Init ==
    /\ tasks = loadTasks([present |-> FALSE, json |-> <<>>])
    /\ rendered = tasks
    /\ stored = setItem(tasks)
    /\ now = 0
    /\ nextTaskId = 1
    /\ nextSubId = 1
    /\ adds = 0
    /\ activeTab = "active"

\* Commit without the effect that stores the collection.
CommitUnsaved(ts) ==
    /\ tasks' = ts
    /\ rendered' = ts
    /\ UNCHANGED stored

\* A command has replaced the collection: the component renders again and
\* the effect on [tasks] writes it to storage.
Commit(ts) ==
    /\ tasks' = ts
    /\ rendered' = ts
    /\ stored' = setItem(ts)

AddTask(title, recurring) ==
    /\ adds < MaxAddTask
    /\ IF trim(title) = <<>>
       THEN UNCHANGED <<tasks, rendered, stored, nextTaskId, adds>>
       ELSE /\ Commit(addTask(tasks, title, recurring, nextTaskId, now))
            /\ nextTaskId' = nextTaskId + (IF recurring THEN Occurrences + 1 ELSE 1)
            /\ adds' = adds + 1
    /\ UNCHANGED <<now, nextSubId, activeTab>>

AddSubtask(taskId, title) ==
    /\ nextSubId <= MaxSubtasks
    /\ IF trim(title) = <<>>
       THEN UNCHANGED <<tasks, rendered, stored, nextSubId>>
       ELSE /\ Commit(addSubtask(tasks, taskId, title, nextSubId))
            /\ nextSubId' = nextSubId + 1
    /\ UNCHANGED <<now, nextTaskId, adds, activeTab>>

ToggleSubtask(taskId, subtaskId) ==
    /\ Commit(toggleSubtask(tasks, taskId, subtaskId))
    /\ UNCHANGED <<now, nextTaskId, nextSubId, adds, activeTab>>

DeleteSubtask(taskId, subtaskId) ==
    /\ Commit(deleteSubtask(tasks, taskId, subtaskId))
    /\ UNCHANGED <<now, nextTaskId, nextSubId, adds, activeTab>>

ToggleTaskExpanded(taskId) ==
    /\ Commit(toggleTaskExpanded(tasks, taskId))
    /\ UNCHANGED <<now, nextTaskId, nextSubId, adds, activeTab>>

DeleteTask(taskId) ==
    /\ Commit(deleteTask(tasks, taskId))
    /\ UNCHANGED <<now, nextTaskId, nextSubId, adds, activeTab>>

StartTask(taskId) ==
    /\ Commit(startTask(tasks, taskId, now))
    /\ UNCHANGED <<now, nextTaskId, nextSubId, adds, activeTab>>

CompleteTask(taskId) ==
    /\ Commit(completeTask(tasks, taskId))
    /\ UNCHANGED <<now, nextTaskId, nextSubId, adds, activeTab>>

\* The page is opened again: `tasks` is rebuilt from storage.
Reload ==
    /\ Commit(loadTasks(stored))
    /\ UNCHANGED <<now, nextTaskId, nextSubId, adds, activeTab>>

Tick ==
    /\ now < MaxNow
    /\ now' = now + 1
    /\ UNCHANGED <<tasks, rendered, stored, nextTaskId, nextSubId, adds, activeTab>>

\* The commands on tasks that do not recur and on their checklists.
Next ==
    \/ \E title \in ChecklistTitleInputs :
           adds < MaxChecklistTasks /\ AddTask(title, FALSE)
    \/ \E taskId \in TaskIdInputs, title \in SubtaskTitleInputs :
           AddSubtask(taskId, title)
    \/ \E taskId \in TaskIdInputs, subtaskId \in SubtaskIdInputs :
           ToggleSubtask(taskId, subtaskId)
    \/ \E taskId \in TaskIdInputs, subtaskId \in SubtaskIdInputs :
           DeleteSubtask(taskId, subtaskId)
    \/ \E taskId \in TaskIdInputs : ToggleTaskExpanded(taskId)
    \/ \E taskId \in TaskIdInputs : DeleteTask(taskId)
    \/ \E taskId \in TaskIdInputs : StartTask(taskId)
    \/ \E taskId \in TaskIdInputs : CompleteTask(taskId)

Spec == Init /\ [][Next]_vars

\* The commands on whole tasks, recurring or not, with two proper titles and a
\* running clock.
NextSeries ==
    \/ \E title \in TitleInputs, recurring \in BOOLEAN : AddTask(title, recurring)
    \/ \E taskId \in TaskIdInputs : DeleteTask(taskId)
    \/ \E taskId \in TaskIdInputs : StartTask(taskId)
    \/ Tick

SpecSeries == Init /\ [][NextSeries]_vars

\* Every command, on recurring tasks too, and the page opened again.
NextStore ==
    \/ \E title \in ChecklistTitleInputs, recurring \in BOOLEAN :
           adds < MaxChecklistTasks /\ AddTask(title, recurring)
    \/ \E taskId \in TaskIdInputs, title \in SubtaskTitleInputs :
           AddSubtask(taskId, title)
    \/ \E taskId \in TaskIdInputs, subtaskId \in SubtaskIdInputs :
           ToggleSubtask(taskId, subtaskId)
    \/ \E taskId \in TaskIdInputs, subtaskId \in SubtaskIdInputs :
           DeleteSubtask(taskId, subtaskId)
    \/ \E taskId \in TaskIdInputs : ToggleTaskExpanded(taskId)
    \/ \E taskId \in TaskIdInputs : DeleteTask(taskId)
    \/ \E taskId \in TaskIdInputs : StartTask(taskId)
    \/ \E taskId \in TaskIdInputs : CompleteTask(taskId)
    \/ Reload

SpecStore == Init /\ [][NextStore]_vars

\* ------------------------------------------- handlers sharing a render
\* setTasks: the state is replaced; the component has not rendered again, so
\* the handlers still hold the `tasks` of the last render and the effect has
\* not run.
SetTasks(ts) ==
    /\ tasks' = ts
    /\ UNCHANGED <<rendered, stored>>

\* addTask passes setTasks an updater, which React applies to the state the
\* earlier calls left.
AddTaskQueued(title, recurring) ==
    /\ adds < MaxAddTask
    /\ IF trim(title) = <<>>
       THEN UNCHANGED <<tasks, rendered, stored, nextTaskId, adds>>
       ELSE /\ SetTasks(addTask(tasks, title, recurring, nextTaskId, now))
            /\ nextTaskId' = nextTaskId + (IF recurring THEN Occurrences + 1 ELSE 1)
            /\ adds' = adds + 1
    /\ UNCHANGED <<now, nextSubId, activeTab>>

\* The other handlers pass setTasks a value made from the `tasks` they hold.
AddSubtaskQueued(taskId, title) ==
    /\ nextSubId <= MaxSubtasks
    /\ IF trim(title) = <<>>
       THEN UNCHANGED <<tasks, rendered, stored, nextSubId>>
       ELSE /\ SetTasks(addSubtask(rendered, taskId, title, nextSubId))
            /\ nextSubId' = nextSubId + 1
    /\ UNCHANGED <<now, nextTaskId, adds, activeTab>>

ToggleSubtaskQueued(taskId, subtaskId) ==
    /\ SetTasks(toggleSubtask(rendered, taskId, subtaskId))
    /\ UNCHANGED <<now, nextTaskId, nextSubId, adds, activeTab>>

DeleteSubtaskQueued(taskId, subtaskId) ==
    /\ SetTasks(deleteSubtask(rendered, taskId, subtaskId))
    /\ UNCHANGED <<now, nextTaskId, nextSubId, adds, activeTab>>

ToggleTaskExpandedQueued(taskId) ==
    /\ SetTasks(toggleTaskExpanded(rendered, taskId))
    /\ UNCHANGED <<now, nextTaskId, nextSubId, adds, activeTab>>

DeleteTaskQueued(taskId) ==
    /\ SetTasks(deleteTask(rendered, taskId))
    /\ UNCHANGED <<now, nextTaskId, nextSubId, adds, activeTab>>

StartTaskQueued(taskId) ==
    /\ SetTasks(startTask(rendered, taskId, now))
    /\ UNCHANGED <<now, nextTaskId, nextSubId, adds, activeTab>>

CompleteTaskQueued(taskId) ==
    /\ SetTasks(completeTask(rendered, taskId))
    /\ UNCHANGED <<now, nextTaskId, nextSubId, adds, activeTab>>

\* React renders the component with the state the setTasks calls left, and
\* the effect on [tasks] stores it.
Render ==
    /\ tasks # rendered
    /\ rendered' = tasks
    /\ stored' = setItem(tasks)
    /\ UNCHANGED <<tasks, now, nextTaskId, nextSubId, adds, activeTab>>

\* The commands of Next, any number of them handled between two renders.
NextRender ==
    \/ \E title \in ChecklistTitleInputs :
           adds < MaxChecklistTasks /\ AddTaskQueued(title, FALSE)
    \/ \E taskId \in TaskIdInputs, title \in SubtaskTitleInputs :
           AddSubtaskQueued(taskId, title)
    \/ \E taskId \in TaskIdInputs, subtaskId \in SubtaskIdInputs :
           ToggleSubtaskQueued(taskId, subtaskId)
    \/ \E taskId \in TaskIdInputs, subtaskId \in SubtaskIdInputs :
           DeleteSubtaskQueued(taskId, subtaskId)
    \/ \E taskId \in TaskIdInputs : ToggleTaskExpandedQueued(taskId)
    \/ \E taskId \in TaskIdInputs : DeleteTaskQueued(taskId)
    \/ \E taskId \in TaskIdInputs : StartTaskQueued(taskId)
    \/ \E taskId \in TaskIdInputs : CompleteTaskQueued(taskId)
    \/ Render

SpecRender == Init /\ [][NextRender]_vars

\* ------------------------------------------- the controls of the page
\* The tab buttons.
SetActiveTab(tab) ==
    /\ activeTab' = tab
    /\ UNCHANGED <<tasks, rendered, stored, now, nextTaskId, nextSubId, adds>>

\* A list that shows every task on both tabs.
listedOnBothTabs(task) == TRUE

\* The list shows activeTasks on the tab 'active' and completedTasks on the
\* tab 'completed'.
listed(task) == IF activeTab = "active" THEN ~task.completed ELSE task.completed

\* The add-task form of the tab 'active'.  The checkbox that sets isRecurring
\* is in the modal, which nothing opens: tasks added on the page do not recur.
SubmitTask(title) ==
    /\ activeTab = "active"
    /\ AddTask(title, FALSE)

\* The buttons of the i-th task, when the list shows it.
ClickToggleTaskExpanded(i) ==
    /\ listed(tasks[i])
    /\ ToggleTaskExpanded(tasks[i].id)

ClickDeleteTask(i) ==
    /\ listed(tasks[i])
    /\ DeleteTask(tasks[i].id)

ClickStartTask(i) ==
    /\ listed(tasks[i])
    /\ activeTab = "active"
    /\ ~tasks[i].inProgress
    /\ StartTask(tasks[i].id)

ClickCompleteTask(i) ==
    /\ listed(tasks[i])
    /\ activeTab = "active"
    /\ CompleteTask(tasks[i].id)

\* The checklist of the i-th task, when the task is expanded.
SubmitSubtask(i, title) ==
    /\ listed(tasks[i])
    /\ tasks[i].expanded
    /\ activeTab = "active"
    /\ AddSubtask(tasks[i].id, title)

ClickToggleSubtask(i, k) ==
    /\ listed(tasks[i])
    /\ tasks[i].expanded
    /\ activeTab = "active"
    /\ tasks[i].inProgress
    /\ ToggleSubtask(tasks[i].id, tasks[i].subtasks[k].id)

ClickDeleteSubtask(i, k) ==
    /\ listed(tasks[i])
    /\ tasks[i].expanded
    /\ activeTab = "active"
    /\ DeleteSubtask(tasks[i].id, tasks[i].subtasks[k].id)

\* The page in use: every command comes from a control the last render shows.
NextUI ==
    \/ \E tab \in {"active", "completed"} : SetActiveTab(tab)
    \/ \E title \in ChecklistTitleInputs :
           adds < MaxChecklistTasks /\ SubmitTask(title)
    \/ \E i \in 1..Len(tasks) : ClickToggleTaskExpanded(i)
    \/ \E i \in 1..Len(tasks) : ClickDeleteTask(i)
    \/ \E i \in 1..Len(tasks) : ClickStartTask(i)
    \/ \E i \in 1..Len(tasks) : ClickCompleteTask(i)
    \/ \E i \in 1..Len(tasks), title \in SubtaskTitleInputs : SubmitSubtask(i, title)
    \/ \E i \in 1..Len(tasks) :
           \E k \in 1..Len(tasks[i].subtasks) : ClickToggleSubtask(i, k)
    \/ \E i \in 1..Len(tasks) :
           \E k \in 1..Len(tasks[i].subtasks) : ClickDeleteSubtask(i, k)

SpecUI == Init /\ [][NextUI]_vars

\* The progress bar: one task whose checklist of up to MaxProgressSubtasks
\* subtasks was ticked off from the top, as addSubtask and toggleSubtask leave
\* it, and completeTask on it.
checklist(length, completedSubtasks) ==
    [k \in 1..length |->
        [newSubtask(<<"s">>, k) EXCEPT !.completed = (k <= completedSubtasks)]]

InitProgress ==
    /\ \E length \in 0..MaxProgressSubtasks :
           \E completedSubtasks \in 0..length :
               tasks = << [newTask(<<"T">>, FALSE, 1) EXCEPT
                              !.subtasks = checklist(length, completedSubtasks),
                              !.completed = (length >= 1
                                             /\ completedSubtasks = length)] >>
    /\ rendered = tasks
    /\ stored = setItem(tasks)
    /\ now = 0
    /\ nextTaskId = 2
    /\ nextSubId = Len(tasks[1].subtasks) + 1
    /\ adds = 1
    /\ activeTab = "active"

NextProgress == \E taskId \in {1} : CompleteTask(taskId)

SpecProgress == InitProgress /\ [][NextProgress]_vars

\* ------------------------------------------------------------- claims
taskIds(ts) == { ts[i].id : i \in 1..Len(ts) }
subtaskIds(task) == { task.subtasks[k].id : k \in 1..Len(task.subtasks) }
taskOf(ts, taskId) == ts[indexOf(ts, taskId)]

\* Every subtask of a task that has some is completed.
allDone(task) == Len(task.subtasks) >= 1 /\ every(task.subtasks)

\* C1 as claimed: in every reachable state, a task with at least one subtask,
\* all of them completed, has completed = true.
C1_AllDoneIsCompleted ==
    \A i \in 1..Len(tasks) : allDone(tasks[i]) => tasks[i].completed

\* C1 as amended: a task comes to have all its subtasks completed without being
\* completed only when a deleteSubtask shortens its subtask list; across every
\* other command "all subtasks completed implies completed" is established or
\* kept, in particular by the toggleSubtask that completes the last subtask.
C1_AllDoneIsCompletedUnlessDeleted ==
    [][ \A i \in 1..Len(tasks') :
          (allDone(tasks'[i]) /\ ~tasks'[i].completed) =>
              /\ tasks'[i].id \in taskIds(tasks)
              /\ LET before == taskOf(tasks, tasks'[i].id)
                 IN  \/ allDone(before) /\ ~before.completed
                     \/ Len(before.subtasks) > Len(tasks'[i].subtasks) ]_vars

\* A task with two subtasks, one of them open, is not completed, and the
\* toggle of the open subtask completes it.
C1_Witness ==
    \E i \in 1..Len(tasks) :
        /\ Len(tasks[i].subtasks) = 2
        /\ tasks[i].subtasks[1].completed
        /\ ~tasks[i].subtasks[2].completed
        /\ ~tasks[i].completed
        /\ LET after == toggleSubtask(tasks, tasks[i].id, tasks[i].subtasks[2].id)[i]
           IN  allDone(after) /\ after.completed

\* C2 as claimed: once a task's completed flag is true it stays true in every
\* later state in which the task still exists.
C2_CompletedStaysCompleted ==
    [][ \A i \in 1..Len(tasks) :
          (tasks[i].completed /\ tasks[i].id \in taskIds(tasks')) =>
              taskOf(tasks', tasks[i].id).completed ]_vars

\* C2 as amended: once a task's completed flag is true it stays true across
\* every command except a toggleSubtask on that task, which sets it to "every
\* subtask is completed".
C2_CompletedStaysUnlessToggled ==
    [][ \A i \in 1..Len(tasks) :
          (tasks[i].completed /\ tasks[i].id \in taskIds(tasks')) =>
              \/ taskOf(tasks', tasks[i].id).completed
              \/ \E subtaskId \in SubtaskIdInputs :
                     /\ ToggleSubtask(tasks[i].id, subtaskId)
                     /\ ~every(taskOf(tasks', tasks[i].id).subtasks) ]_vars

\* A task is completed although one of its subtasks is open, and startTask
\* and deleteSubtask on it leave it completed.
C2_Witness ==
    \E i \in 1..Len(tasks) :
        /\ tasks[i].completed
        /\ ~every(tasks[i].subtasks)
        /\ startTask(tasks, tasks[i].id, now)[i].completed
        /\ deleteSubtask(tasks, tasks[i].id, tasks[i].subtasks[1].id)[i].completed

\* C3 as claimed: a command that names a task id that is not in the collection,
\* or (toggleSubtask, deleteSubtask) a subtask id that the named task does not
\* contain, leaves the collection as it was.
C3_NonExistentIdIsNoOp ==
    [][ \A taskId \in TaskIdInputs :
          /\ ( /\ taskId \notin taskIds(tasks)
               /\ \/ \E title \in SubtaskTitleInputs : AddSubtask(taskId, title)
                  \/ ToggleTaskExpanded(taskId)
                  \/ DeleteTask(taskId)
                  \/ StartTask(taskId)
                  \/ CompleteTask(taskId) ) => tasks' = tasks
          /\ \A subtaskId \in SubtaskIdInputs :
                ( /\ \/ taskId \notin taskIds(tasks)
                     \/ subtaskId \notin subtaskIds(taskOf(tasks, taskId))
                  /\ \/ ToggleSubtask(taskId, subtaskId)
                     \/ DeleteSubtask(taskId, subtaskId) ) => tasks' = tasks ]_vars

\* The records of ts at the indices in gone are removed and nothing else is:
\* the others are in post, unchanged and in the same relative order.
isRemovalOf(post, ts, gone) ==
    LET skipped == [i \in 1..Len(ts) |-> Cardinality({ j \in gone : j < i })]
    IN  /\ Len(post) = Len(ts) - Cardinality(gone)
        /\ \A i \in (1..Len(ts)) \ gone : post[i - skipped[i]] = ts[i]

sameSeries(task, target) ==
    /\ task.title = target.title
    /\ Prop(task, "recurrencePattern") = Prop(target, "recurrencePattern")

\* C4: in every reachable collection, deleteTask on a recurring task removes
\* exactly the records that share its title and recurrencePattern and leaves
\* every other record present, unchanged and in the same relative order.
C4_DeleteRecurringRemovesSeries ==
    \A taskId \in TaskIdInputs :
        (taskId \in taskIds(tasks) /\ taskOf(tasks, taskId).isRecurring) =>
            LET target == taskOf(tasks, taskId)
                series == { i \in 1..Len(tasks) : sameSeries(tasks[i], target) }
            IN  isRemovalOf(deleteTask(tasks, taskId), tasks, series)

\* Three addTask calls allocated the ids 1..27 (two recurring series and one
\* task) and only the non-recurring task titled "T" is left: as only the ids
\* in TaskIdInputs are ever deleted, one deleteTask on a member of the first
\* series removed both series, which therefore had the same title "T".
C4_Witness ==
    /\ nextTaskId = 2 * (Occurrences + 1) + 2
    /\ Len(tasks) = 1
    /\ tasks[1].id > MaxTaskTarget
    /\ ~tasks[1].isRecurring
    /\ tasks[1].title = <<"T">>

\* C5: in every reachable collection, deleteTask on an existing non-recurring
\* task removes the one record with that id and leaves all others unchanged
\* and in the same order.
C5_DeleteNonRecurringRemovesOne ==
    \A taskId \in TaskIdInputs :
        (taskId \in taskIds(tasks) /\ ~taskOf(tasks, taskId).isRecurring) =>
            /\ Cardinality({ i \in 1..Len(tasks) : tasks[i].id = taskId }) = 1
            /\ isRemovalOf(deleteTask(tasks, taskId), tasks,
                   { i \in 1..Len(tasks) : tasks[i].id = taskId })

\* Task 1 was deleted alone (15 ids were allocated and 14 records are left:
\* deleting a recurring task would have removed 13), and a recurring series
\* and another task, all with one title, are still there.
C5_Witness ==
    /\ nextTaskId = Occurrences + 4
    /\ Len(tasks) = Occurrences + 2
    /\ 1 \notin taskIds(tasks)
    /\ \A i \in 1..Len(tasks) : tasks[i].title = tasks[1].title
    /\ \E i \in 1..Len(tasks) : ~tasks[i].isRecurring

\* C6: addTask with a non-blank title appends, after the unchanged existing
\* records, 13 records when recurring (else one): fresh, pairwise distinct ids,
\* the given title, not completed, not started, not expanded, no subtasks;
\* recurring and "weekly" (else not recurring and without recurrencePattern);
\* the first with startDate null, the (i+1)-th with startDate now + 7*i days.
C6_AddTaskAppends ==
    [][ \A title \in TitleInputs, recurring \in BOOLEAN :
          (AddTask(title, recurring) /\ trim(title) # <<>>) =>
              LET n == Len(tasks)
                  count == IF recurring THEN 13 ELSE 1
              IN  /\ Len(tasks') = n + count
                  /\ SubSeq(tasks', 1, n) = tasks
                  /\ \A k \in 1..count :
                         LET new == tasks'[n + k]
                         IN  /\ new.title = title
                             /\ new.isRecurring = recurring
                             /\ Prop(new, "recurrencePattern")
                                    = (IF recurring THEN "weekly" ELSE Undefined)
                             /\ ~new.completed
                             /\ ~new.inProgress
                             /\ ~new.expanded
                             /\ new.subtasks = <<>>
                             /\ new.id \notin taskIds(tasks)
                             /\ new.id >= nextTaskId
                             /\ new.startDate =
                                    (IF k = 1 THEN Null ELSE <<now + 7 * (k - 1)>>)
                  /\ \A k, l \in 1..count :
                         k # l => tasks'[n + k].id # tasks'[n + l].id ]_vars

\* A recurring task was added on day 1 behind a non-recurring one: 14 records,
\* the last of them 12 weeks after day 1.
C6_Witness ==
    /\ now = 1
    /\ Len(tasks) = 14
    /\ ~tasks[1].isRecurring
    /\ tasks[2].isRecurring /\ tasks[2].startDate = Null
    /\ tasks[14].isRecurring /\ tasks[14].startDate = <<1 + 84>>

\* C7: in every reachable collection, toggleSubtask on an existing task and
\* subtask flips that subtask's completed flag and no other, and sets the
\* task's completed flag to "every subtask is completed" whatever it was;
\* nothing else changes.
C7_ToggleFlipsAndRecomputes ==
    \A taskId \in TaskIdInputs, subtaskId \in SubtaskIdInputs :
        ( /\ taskId \in taskIds(tasks)
          /\ subtaskId \in subtaskIds(taskOf(tasks, taskId)) ) =>
            LET toggled == toggleSubtask(tasks, taskId, subtaskId)
                at == indexOf(tasks, taskId)
                before == tasks[at]
                after == toggled[at]
            IN  /\ Len(toggled) = Len(tasks)
                /\ \A i \in 1..Len(tasks) : i # at => toggled[i] = tasks[i]
                /\ Len(after.subtasks) = Len(before.subtasks)
                /\ \A k \in 1..Len(before.subtasks) :
                       /\ after.subtasks[k].id = before.subtasks[k].id
                       /\ after.subtasks[k].title = before.subtasks[k].title
                       /\ (after.subtasks[k].completed # before.subtasks[k].completed)
                              <=> (before.subtasks[k].id = subtaskId)
                /\ after.completed
                       <=> (\A k \in 1..Len(after.subtasks) :
                                after.subtasks[k].completed)
                /\ [after EXCEPT !.subtasks = <<>>, !.completed = FALSE]
                       = [before EXCEPT !.subtasks = <<>>, !.completed = FALSE]

\* A task forced complete by completeTask while both of its subtasks are open:
\* the toggle of one of them completes that subtask and takes the task back to
\* not completed.
C7_Witness ==
    \E i \in 1..Len(tasks) :
        /\ tasks[i].completed
        /\ Len(tasks[i].subtasks) = 2
        /\ ~tasks[i].subtasks[1].completed
        /\ ~tasks[i].subtasks[2].completed
        /\ LET after == toggleSubtask(tasks, tasks[i].id, tasks[i].subtasks[1].id)[i]
           IN  after.subtasks[1].completed /\ ~after.completed

\* C8: in every reachable collection, deleteSubtask removes the matching
\* subtask only, keeps the remaining subtasks in order, and leaves completed,
\* every other field and every other task as they were.
C8_DeleteSubtaskKeepsCompleted ==
    \A taskId \in TaskIdInputs, subtaskId \in SubtaskIdInputs :
        LET deleted == deleteSubtask(tasks, taskId, subtaskId)
        IN  /\ Len(deleted) = Len(tasks)
            /\ \A i \in 1..Len(tasks) :
                   /\ deleted[i].completed = tasks[i].completed
                   /\ tasks[i].id # taskId => deleted[i] = tasks[i]
                   /\ tasks[i].id = taskId =>
                          /\ isRemovalOf(deleted[i].subtasks, tasks[i].subtasks,
                                 { k \in 1..Len(tasks[i].subtasks) :
                                       tasks[i].subtasks[k].id = subtaskId })
                          /\ [deleted[i] EXCEPT !.subtasks = <<>>]
                                 = [tasks[i] EXCEPT !.subtasks = <<>>]

\* A task that is not completed has a completed and an open subtask, and the
\* deleteSubtask of the open one leaves it with all subtasks completed and
\* still not completed; another has one open subtask, and the deleteSubtask of
\* it leaves it with none and still not completed.
C8_Witness ==
    /\ \E i \in 1..Len(tasks) :
           /\ ~tasks[i].completed
           /\ Len(tasks[i].subtasks) = 2
           /\ tasks[i].subtasks[1].completed
           /\ ~tasks[i].subtasks[2].completed
           /\ LET after == deleteSubtask(tasks, tasks[i].id,
                                         tasks[i].subtasks[2].id)[i]
              IN  allDone(after) /\ ~after.completed
    /\ \E taskId \in TaskIdInputs, subtaskId \in SubtaskIdInputs :
           \E i \in 1..Len(tasks) :
               /\ tasks[i].id = taskId
               /\ ~tasks[i].completed
               /\ Len(tasks[i].subtasks) = 2
               /\ LET once == deleteSubtask(tasks, taskId, tasks[i].subtasks[1].id)
                      twice == deleteSubtask(once, taskId, tasks[i].subtasks[2].id)
                  IN  twice[i].subtasks = <<>> /\ ~twice[i].completed

\* C9 as claimed: any two distinct records that are recurring with the same
\* title and recurrencePattern have distinct ids and distinct startDates.
C9_SeriesMembersDistinct ==
    \A i, j \in 1..Len(tasks) :
        ( /\ i # j
          /\ tasks[i].isRecurring
          /\ tasks[j].isRecurring
          /\ sameSeries(tasks[i], tasks[j]) ) =>
            /\ tasks[i].id # tasks[j].id
            /\ tasks[i].startDate # tasks[j].startDate

\* The fields a Task can have.
TaskKeys ==
    { "id", "title", "startDate", "completed", "subtasks", "expanded",
      "inProgress", "isRecurring", "recurrencePattern" }

sameField(a, b, key) ==
    /\ (key \in DOMAIN a) <=> (key \in DOMAIN b)
    /\ key \in DOMAIN a => a[key] = b[key]

\* C10: writing the collection to storage and loading it back gives the same
\* records in the same order: every field equal, recurrencePattern on the same
\* records, startDate the same instant or null.
C10_RoundTrip ==
    LET loaded == loadTasks(setItem(tasks))
    IN  /\ Len(loaded) = Len(tasks)
        /\ \A i \in 1..Len(tasks) :
               /\ DOMAIN loaded[i] \subseteq TaskKeys
               /\ \A key \in TaskKeys : sameField(loaded[i], tasks[i], key)

\* The stored collection holds a started task with a completed subtask and a
\* recurring series whose last startDate, 12 weeks on, takes two digits.
C10_Witness ==
    /\ stored = setItem(tasks)
    /\ \E i \in 1..Len(tasks) :
           /\ tasks[i].inProgress
           /\ tasks[i].startDate = <<now>>
           /\ Len(tasks[i].subtasks) >= 1
           /\ tasks[i].subtasks[1].completed
           /\ ~tasks[i].isRecurring
    /\ \E i \in 1..Len(tasks) :
           tasks[i].isRecurring /\ tasks[i].startDate = <<84>>
    /\ \E i \in 1..Len(tasks) :
           tasks[i].isRecurring /\ tasks[i].startDate = Null

\* C11: in every reachable collection, startTask on an existing task followed
\* by completeTask on it leaves the task in progress and completed with the
\* startDate startTask set; completeTask alone sets completed whatever the
\* subtasks and whether or not the task was started, and changes no other
\* field of the task and no other task.
C11_StartThenComplete ==
    \A taskId \in TaskIdInputs :
        taskId \in taskIds(tasks) =>
            LET at == indexOf(tasks, taskId)
                started == startTask(tasks, taskId, now)
                done == completeTask(started, taskId)
                forced == completeTask(tasks, taskId)
            IN  /\ done[at].inProgress
                /\ done[at].completed
                /\ started[at].startDate # Null
                /\ done[at].startDate = started[at].startDate
                /\ Len(forced) = Len(tasks)
                /\ forced[at].completed
                /\ \A key \in TaskKeys \ {"completed"} :
                       sameField(forced[at], tasks[at], key)
                /\ \A i \in 1..Len(tasks) : i # at => forced[i] = tasks[i]

\* A task that was started and then completed while one of its subtasks is
\* open, beside a task that is not started, whose completeTask completes it
\* without starting it.
C11_Witness ==
    \E i, j \in 1..Len(tasks) :
        /\ tasks[i].inProgress
        /\ tasks[i].completed
        /\ tasks[i].startDate = <<now>>
        /\ Len(tasks[i].subtasks) >= 1
        /\ ~every(tasks[i].subtasks)
        /\ ~tasks[j].inProgress
        /\ ~tasks[j].completed
        /\ LET forced == completeTask(tasks, tasks[j].id)[j]
           IN  forced.completed /\ ~forced.inProgress /\ forced.startDate = Null

\* A title that is empty or made of spaces only.
blank(title) == \A k \in 1..Len(title) : title[k] = " "

\* C12: addTask with an empty or whitespace-only title, recurring or not, and
\* addSubtask with an empty or whitespace-only title leave the collection, and
\* with it every subtask list, the stored copy and the ids, as they were.
C12_BlankIsIgnored ==
    [][ /\ \A title \in ChecklistTitleInputs, recurring \in BOOLEAN :
              (blank(title) /\ AddTask(title, recurring)) =>
                  /\ tasks' = tasks
                  /\ stored' = stored
                  /\ nextTaskId' = nextTaskId
        /\ \A taskId \in TaskIdInputs, title \in SubtaskTitleInputs :
              (blank(title) /\ AddSubtask(taskId, title)) =>
                  /\ tasks' = tasks
                  /\ stored' = stored
                  /\ nextSubId' = nextSubId ]_vars

\* A recurring task with a subtask, in a state where both forms can still be
\* submitted, with an empty and with a whitespace-only title.
C12_Witness ==
    /\ adds < MaxChecklistTasks
    /\ nextSubId <= MaxSubtasks
    /\ \E i \in 1..Len(tasks) :
           /\ tasks[i].id \in TaskIdInputs
           /\ tasks[i].isRecurring
           /\ Len(tasks[i].subtasks) >= 1
    /\ \E title \in ChecklistTitleInputs : blank(title) /\ title # <<>>
    /\ \E title \in SubtaskTitleInputs : blank(title) /\ title # <<>>
    /\ <<>> \in ChecklistTitleInputs \cap SubtaskTitleInputs

completedCount(task) ==
    Cardinality({ k \in 1..Len(task.subtasks) : task.subtasks[k].completed })

\* p is 100 * completedCount / totalCount rounded to the nearest integer.
isRoundedPercent(p, task) ==
    LET total == Len(task.subtasks)
        diff == 100 * completedCount(task) - total * p
    IN  2 * diff <= total /\ -2 * diff <= total

\* What C13 and its amendment share: progress is 0 without subtasks, else the
\* ratio rounded to the nearest integer (1 of 3 gives 33), in 0..100, 100
\* when all of at least one subtask are completed, whatever the completed flag.
progressIsRounded(task) ==
    LET p == calculateProgress(task)
    IN  /\ Len(task.subtasks) = 0 => p = 0
        /\ Len(task.subtasks) >= 1 => isRoundedPercent(p, task)
        /\ (Len(task.subtasks) = 3 /\ completedCount(task) = 1) => p = 33
        /\ p \in 0..100
        /\ allDone(task) => p = 100
        /\ calculateProgress([task EXCEPT !.completed = ~@]) = p

\* C13 as claimed: progress is the rounded ratio, and it is 100 exactly when
\* the task has at least one subtask and all are completed.
C13_ProgressIsRoundedRatio ==
    \A i \in 1..Len(tasks) :
        /\ progressIsRounded(tasks[i])
        /\ calculateProgress(tasks[i]) = 100 => allDone(tasks[i])

\* C13 as amended: progress is the rounded ratio, and when it is 100 at most
\* one subtask in 200 is open.
C13_ProgressIsRoundedRatioNear100 ==
    \A i \in 1..Len(tasks) :
        /\ progressIsRounded(tasks[i])
        /\ calculateProgress(tasks[i]) = 100 =>
               /\ Len(tasks[i].subtasks) >= 1
               /\ 200 * (Len(tasks[i].subtasks) - completedCount(tasks[i]))
                      <= Len(tasks[i].subtasks)

\* 199 of 200 subtasks are completed, the task was completed by completeTask
\* and not by its subtasks, and its progress is 100; with the checklist 1 of 3
\* it is 33, and with 23 of 40, the half 57.5, it is 57.
C13_Witness ==
    \E i \in 1..Len(tasks) :
        /\ Len(tasks[i].subtasks) = 200
        /\ completedCount(tasks[i]) = 199
        /\ tasks[i].completed
        /\ calculateProgress(tasks[i]) = 100
        /\ calculateProgress([tasks[i] EXCEPT !.subtasks = checklist(3, 1)]) = 33
        /\ calculateProgress([tasks[i] EXCEPT !.subtasks = checklist(40, 23)]) = 57

\* A task has a recurrencePattern, and it is 'weekly', iff it is recurring.
patternIffRecurring(task) ==
    /\ task.isRecurring \in BOOLEAN
    /\ (Prop(task, "recurrencePattern") # Undefined) <=> task.isRecurring
    /\ task.isRecurring => Prop(task, "recurrencePattern") = "weekly"

\* C14: in every reachable state each task has recurrencePattern defined,
\* and equal to 'weekly', iff its isRecurring is true; so has each task of
\* the collection that loading the stored item gives.
C14_PatternIffRecurring ==
    /\ \A i \in 1..Len(tasks) : patternIffRecurring(tasks[i])
    /\ LET loaded == loadTasks(stored)
       IN  \A i \in 1..Len(loaded) : patternIffRecurring(loaded[i])

\* A started recurring task and a task that does not recur are in the
\* collection and in the stored item, with and without the pattern.
C14_Witness ==
    LET loaded == loadTasks(stored)
    IN  /\ Len(loaded) = Len(tasks)
        /\ \E i, j \in 1..Len(tasks) :
               /\ tasks[i].isRecurring
               /\ tasks[i].inProgress
               /\ loaded[i].isRecurring
               /\ "recurrencePattern" \in DOMAIN stored.json[i]
               /\ loaded[i].recurrencePattern = "weekly"
               /\ ~tasks[j].isRecurring
               /\ ~loaded[j].isRecurring
               /\ "recurrencePattern" \notin DOMAIN stored.json[j]
               /\ "recurrencePattern" \notin DOMAIN loaded[j]

\* C15: when a command starts, the item stored under 'tasks' is there and is
\* the serialization of the current collection: the effect has rewritten it
\* after every command that changed the collection.
C15_StoredIsCurrent ==
    /\ stored.present
    /\ stored.json = stringify(tasks)
    /\ Len(stored.json) = Len(tasks)
    /\ \A i \in 1..Len(tasks) :
           /\ stored.json[i].id = tasks[i].id
           /\ stored.json[i].completed = tasks[i].completed
           /\ stored.json[i].inProgress = tasks[i].inProgress
           /\ stored.json[i].expanded = tasks[i].expanded
           /\ stored.json[i].subtasks = tasks[i].subtasks
           /\ (stored.json[i].startDate.type = "null") <=> (tasks[i].startDate = Null)

\* The stored item after a task with a checklist was added, started, had a
\* subtask toggled and was expanded, and a recurring series was added.
C15_Witness ==
    /\ Len(stored.json) = Occurrences + 2
    /\ \E i \in 1..Len(stored.json) :
           /\ ~stored.json[i].isRecurring
           /\ stored.json[i].inProgress
           /\ stored.json[i].startDate = [type |-> "string", text |-> <<0>>]
           /\ stored.json[i].expanded
           /\ Len(stored.json[i].subtasks) = 2
           /\ stored.json[i].subtasks[1].completed
    /\ \E i \in 1..Len(stored.json) :
           /\ stored.json[i].isRecurring
           /\ stored.json[i].startDate = [type |-> "string", text |-> <<8, 4>>]

\* C16: in every reachable collection, startTask on an existing task sets
\* inProgress and sets startDate to now whatever it was (null, the future date
\* of a recurring follow-up, an earlier start), and leaves every other field of
\* the task and every other task as they were.
C16_StartTaskSetsNow ==
    \A taskId \in TaskIdInputs :
        taskId \in taskIds(tasks) =>
            LET at == indexOf(tasks, taskId)
                started == startTask(tasks, taskId, now)
            IN  /\ Len(started) = Len(tasks)
                /\ started[at].inProgress
                /\ started[at].startDate = <<now>>
                /\ \A key \in TaskKeys \ {"inProgress", "startDate"} :
                       sameField(started[at], tasks[at], key)
                /\ \A i \in 1..Len(tasks) : i # at => started[i] = tasks[i]

\* On day 1, task 1 of a recurring series is in progress since day 0 and
\* starting it again moves its startDate to day 1; task 2, the follow-up that
\* was due on day 7 or 8, was started today; the next follow-up keeps its date.
C16_Witness ==
    /\ now = 1
    /\ Len(tasks) >= 3
    /\ tasks[1].id = 1 /\ tasks[1].isRecurring
    /\ tasks[1].inProgress /\ tasks[1].startDate = <<0>>
    /\ startTask(tasks, 1, now)[1].startDate = <<1>>
    /\ tasks[2].id = 2 /\ tasks[2].isRecurring
    /\ tasks[2].inProgress /\ tasks[2].startDate = <<1>>
    /\ ~tasks[3].inProgress /\ tasks[3].startDate \in { <<2 * Week>>, <<2 * Week + 1>> }

\* C17 as claimed: whether or not the component has rendered since the last
\* command, every command leaves the collection that results from applying it
\* to the collection the commands before it left.
C17_CommandsApplyInOrder ==
    [][ /\ \A title \in ChecklistTitleInputs :
              (trim(title) # <<>> /\ AddTaskQueued(title, FALSE)) =>
                  tasks' = addTask(tasks, title, FALSE, nextTaskId, now)
        /\ \A taskId \in TaskIdInputs :
              /\ \A title \in SubtaskTitleInputs :
                    (trim(title) # <<>> /\ AddSubtaskQueued(taskId, title)) =>
                        tasks' = addSubtask(tasks, taskId, title, nextSubId)
              /\ \A subtaskId \in SubtaskIdInputs :
                    /\ ToggleSubtaskQueued(taskId, subtaskId) =>
                           tasks' = toggleSubtask(tasks, taskId, subtaskId)
                    /\ DeleteSubtaskQueued(taskId, subtaskId) =>
                           tasks' = deleteSubtask(tasks, taskId, subtaskId)
              /\ ToggleTaskExpandedQueued(taskId) =>
                     tasks' = toggleTaskExpanded(tasks, taskId)
              /\ DeleteTaskQueued(taskId) => tasks' = deleteTask(tasks, taskId)
              /\ StartTaskQueued(taskId) => tasks' = startTask(tasks, taskId, now)
              /\ CompleteTaskQueued(taskId) =>
                     tasks' = completeTask(tasks, taskId) ]_vars

\* C18: with every command issued from a control the page shows, a completed
\* task stays completed and changes in no field but expanded for as long as
\* it exists, and no subtask of a task that is not in progress changes its
\* completed flag.
C18_CompletedIsFrozen ==
    [][ \A i \in 1..Len(tasks) :
          tasks[i].id \in taskIds(tasks') =>
              LET after == taskOf(tasks', tasks[i].id)
              IN  /\ tasks[i].completed =>
                         /\ after.completed
                         /\ \A key \in TaskKeys \ {"expanded"} :
                                sameField(after, tasks[i], key)
                  /\ ~tasks[i].inProgress =>
                         \A k \in 1..Len(tasks[i].subtasks) :
                             \A l \in 1..Len(after.subtasks) :
                                 after.subtasks[l].id = tasks[i].subtasks[k].id =>
                                     after.subtasks[l].completed
                                         = tasks[i].subtasks[k].completed ]_vars

\* On the tab 'completed': a task that was started, completed by the toggle of
\* its subtask and collapsed after that; beside it an expanded task with an
\* open subtask that was not started.
C18_Witness ==
    /\ activeTab = "completed"
    /\ \E i, j \in 1..Len(tasks) :
           /\ tasks[i].completed
           /\ tasks[i].inProgress
           /\ allDone(tasks[i])
           /\ ~tasks[i].expanded
           /\ ~tasks[j].completed
           /\ ~tasks[j].inProgress
           /\ tasks[j].expanded
           /\ Len(tasks[j].subtasks) >= 1
           /\ ~tasks[j].subtasks[1].completed

\* C19: a task is created not in progress; inProgress becomes true by a
\* startTask on the task only; once true it stays true for as long as the
\* task exists; and a task in progress has a startDate that is not null.
C19_InProgressMonotonic ==
    [][ /\ \A i \in 1..Len(tasks') :
              /\ tasks'[i].inProgress => tasks'[i].startDate # Null
              /\ tasks'[i].id \notin taskIds(tasks) => ~tasks'[i].inProgress
              /\ ( /\ tasks'[i].id \in taskIds(tasks)
                   /\ tasks'[i].inProgress
                   /\ ~taskOf(tasks, tasks'[i].id).inProgress ) =>
                     StartTask(tasks'[i].id)
        /\ \A i \in 1..Len(tasks) :
              (tasks[i].inProgress /\ tasks[i].id \in taskIds(tasks')) =>
                  taskOf(tasks', tasks[i].id).inProgress ]_vars

\* A task in progress, expanded and not completed, has one subtask left of the
\* two it was given; beside it a recurring series none of whose tasks is in
\* progress, the follow-ups with their dates.
C19_Witness ==
    \E i \in 1..Len(tasks) :
        /\ tasks[i].inProgress
        /\ tasks[i].startDate # Null
        /\ ~tasks[i].completed
        /\ tasks[i].expanded
        /\ nextSubId = 3
        /\ Len(tasks[i].subtasks) = 1
        /\ \E j \in 1..Len(tasks) :
               /\ tasks[j].isRecurring
               /\ tasks[j].startDate # Null
        /\ \A j \in 1..Len(tasks) : tasks[j].isRecurring => ~tasks[j].inProgress

====
